---- MODULE Spec2Model ----
(***************************************************************************)
(* A model of src/cntrlF/src/taskpane/taskpane.ts: the task pane of a      *)
(* spreadsheet add-in that receives partial transcripts over a WebSocket   *)
(* and highlights the cells of the active worksheet that contain the       *)
(* transcript.                                                             *)
(*                                                                         *)
(* Text is modelled as a sequence of one-character strings, so that        *)
(* trim(), toLowerCase(), includes() and String() are computed and not     *)
(* assumed.  One step of the model is one task of the JavaScript event     *)
(* loop: an event handler run to its first await, or the continuation of   *)
(* an `await ctx.sync()` run to the next await.                            *)
(***************************************************************************)
EXTENDS Integers, Sequences, FiniteSets, TLC

VARIABLES
    ws,                   \* line 2: readyState of the socket ws refers to, or "null"
    orphans,              \* sockets made by connect() that ws no longer refers to and
                          \* that are not closed yet: readyState -> how many
    bufferText,           \* line 3
    autoSearchThreshold,  \* line 4: [nan, n, frac], the JavaScript number
    status,               \* textContent of #status
    live,                 \* textContent of #live
    connectDisabled,      \* #connect.disabled
    disconnectDisabled,   \* #disconnect.disabled
    values,               \* the used range of the active worksheet: cell -> value
    fill,                 \* cell -> fill colour ("" is no fill)
    selection,            \* the selected cell
    runs,                 \* the Excel.run batches in flight, oldest first
    lastWrite             \* history: the latest batch whose writes reached the sheet

vars == <<ws, orphans, bufferText, autoSearchThreshold, status, live,
          connectDisabled, disconnectDisabled, values, fill, selection,
          runs, lastWrite>>

-----------------------------------------------------------------------------
(* Bounds of the model.                                                    *)

NumRows == 2
NumCols == 2
MaxRuns == 2
MaxSockets == 2

-----------------------------------------------------------------------------
(* Text.                                                                   *)

\* String.prototype.toLowerCase, one character.
LowerChar(ch) ==
    CASE ch = "A" -> "a"
      [] ch = "B" -> "b"
      [] ch = "C" -> "c"
      [] ch = "X" -> "x"
      [] OTHER -> ch

toLowerCase(s) == [i \in 1..Len(s) |-> LowerChar(s[i])]

\* The white space String.prototype.trim removes.
IsWhiteSpace(ch) == ch \in {" ", "\t"}

RECURSIVE trimStart(_)
trimStart(s) ==
    IF s # <<>> /\ IsWhiteSpace(Head(s)) THEN trimStart(Tail(s)) ELSE s

RECURSIVE trimEnd(_)
trimEnd(s) ==
    IF s # <<>> /\ IsWhiteSpace(s[Len(s)])
    THEN trimEnd(SubSeq(s, 1, Len(s) - 1))
    ELSE s

trim(s) == trimEnd(trimStart(s))

\* String.prototype.includes: q occurs in s at some position.
RECURSIVE includesFrom(_, _, _)
includesFrom(s, q, k) ==
    IF k + Len(q) - 1 > Len(s) THEN FALSE
    ELSE IF SubSeq(s, k, k + Len(q) - 1) = q THEN TRUE
    ELSE includesFrom(s, q, k + 1)

includes(s, q) == includesFrom(s, q, 1)

\* Number.prototype.toString of a non-negative integer.
DigitChar(d) ==
    CASE d = 0 -> "0" [] d = 1 -> "1" [] d = 2 -> "2" [] d = 3 -> "3"
      [] d = 4 -> "4" [] d = 5 -> "5" [] d = 6 -> "6" [] d = 7 -> "7"
      [] d = 8 -> "8" [] OTHER -> "9"

RECURSIVE Digits(_)
Digits(n) ==
    IF n < 10 THEN <<DigitChar(n)>>
    ELSE Append(Digits(n \div 10), DigitChar(n % 10))

-----------------------------------------------------------------------------
(* Cell values: what Range.values holds.  kind "null" is an absent value,  *)
(* "str" a string (s), "num" a number (n).                                 *)

NullCell == [kind |-> "null", s |-> <<>>, n |-> 0]
Str(s) == [kind |-> "str", s |-> s, n |-> 0]
Num(n) == [kind |-> "num", s |-> <<>>, n |-> n]

\* String(cellVal) of line 44.
String(v) ==
    CASE v.kind = "str" -> v.s
      [] v.kind = "num" -> Digits(v.n)
      [] OTHER -> <<"n", "u", "l", "l">>

Cells == (0..(NumRows - 1)) \X (0..(NumCols - 1))

\* The cell outside the used range that is selected when the pane loads.
UserCell == <<NumRows, NumCols>>

\* The transcripts the server sends: the empty one, a blank one, one of
\* five characters and one of six with white space around its text.
Word == <<"a", "B", "1", "2", "c">>
Padded == <<" ", "1", "2", " ", " ", " ">>
Texts == { <<>>, <<" ">>, Word, Padded }

\* Sheet contents the model is run on.  SheetA holds the number 12 and two
\* cells that contain Word in another case, one of them below and to the
\* left of the other.  SheetB holds a cell with the characters of Word but
\* not the text, a number that contains neither term, an absent value and
\* empty strings.
SheetA ==
    [cell \in Cells |->
        CASE cell = <<0, 0>> -> Num(12)
          [] cell = <<0, NumCols - 1>> -> Str(<<"A", "b", "1", "2", "C">>)
          [] cell = <<NumRows - 1, 0>> -> Str(<<"x", "a", "B", "1", "2", "c">>)
          [] OTHER -> NullCell]

SheetB ==
    [cell \in Cells |->
        CASE cell = <<0, 0>> -> Str(<<"a", " ", "b", "1", "2">>)
          [] cell = <<0, NumCols - 1>> -> Num(1)
          [] cell = <<NumRows - 1, 0>> -> NullCell
          [] OTHER -> Str(<<>>)]

Sheets == {SheetA, SheetB}

\* The fill of the sheet when the pane loads: one cell the user coloured.
UserFill == [cell \in Cells |-> IF cell = <<NumRows - 1, NumCols - 1>> THEN "red" ELSE ""]

\* The values of the threshold control when its change event fires: the
\* empty text, a negative number, the initial one and one with a fraction.
ThresholdValues == { <<>>, <<"-", "1">>, <<"6">>, <<"5", ".", "5">> }

-----------------------------------------------------------------------------
(* JavaScript numbers, as far as the threshold needs them: NaN, an integer  *)
(* n, or a number strictly between n and n + 1 (frac).                     *)

NaN == [nan |-> TRUE, n |-> 0, frac |-> FALSE]
Int32(n) == [nan |-> FALSE, n |-> n, frac |-> FALSE]
Fraction(n) == [nan |-> FALSE, n |-> n, frac |-> TRUE]

DigitValue(ch) ==
    CASE ch = "0" -> 0 [] ch = "1" -> 1 [] ch = "2" -> 2 [] ch = "3" -> 3
      [] ch = "4" -> 4 [] ch = "5" -> 5 [] ch = "6" -> 6 [] ch = "7" -> 7
      [] ch = "8" -> 8 [] OTHER -> 9

IsDigit(ch) == ch \in {"0", "1", "2", "3", "4", "5", "6", "7", "8", "9"}

RECURSIVE DigitsValue(_, _)
DigitsValue(s, acc) ==
    IF s = <<>> THEN acc ELSE DigitsValue(Tail(s), 10 * acc + DigitValue(Head(s)))

AllDigits(d) == d # <<>> /\ \A i \in 1..Len(d) : IsDigit(d[i])

\* Number(th.value) of line 123: the empty text is 0, an optionally signed
\* run of digits, with or without a point and a second run, is its value,
\* anything else is NaN.
Number(s) ==
    LET t == trim(s)
        neg == t # <<>> /\ Head(t) = "-"
        d == IF neg THEN Tail(t) ELSE t
        points == {i \in 1..Len(d) : d[i] = "."}
        point == CHOOSE i \in points : TRUE
        whole == SubSeq(d, 1, point - 1)
        part == SubSeq(d, point + 1, Len(d))
    IN  IF t = <<>> THEN Int32(0)
        ELSE IF AllDigits(d)
             THEN Int32(IF neg THEN 0 - DigitsValue(d, 0) ELSE DigitsValue(d, 0))
        ELSE IF Cardinality(points) = 1 /\ AllDigits(whole) /\ AllDigits(part)
             THEN IF DigitsValue(part, 0) = 0
                  THEN Int32(IF neg THEN 0 - DigitsValue(whole, 0) ELSE DigitsValue(whole, 0))
                  ELSE Fraction(IF neg THEN 0 - DigitsValue(whole, 0) - 1
                                ELSE DigitsValue(whole, 0))
        ELSE NaN

\* Math.max(0, x) of line 123.
MathMax0(x) == IF x.nan THEN NaN ELSE IF x.n >= 0 THEN x ELSE Int32(0)

\* `length >= autoSearchThreshold` of line 89: false against NaN.
AtLeast(len, x) == ~x.nan /\ (IF x.frac THEN len > x.n ELSE len >= x.n)

\* line 4
InitialThreshold == 6

-----------------------------------------------------------------------------
(* The status line.                                                        *)

Msg(kind) == [kind |-> kind, n |-> 0, term |-> <<>>]
InitialStatus == Msg("initial")              \* the text of the markup
ConnectedMsg == Msg("connected")             \* line 76
DisconnectedMsg == Msg("disconnected")       \* line 100
UnableMsg == Msg("unable")                   \* line 106
FoundMsg(n, needle) == [kind |-> "found", n |-> n, term |-> needle]      \* line 62
NoMatchesMsg(needle) == [kind |-> "nomatch", n |-> 0, term |-> needle]   \* line 64

-----------------------------------------------------------------------------
(* highlightMatches, lines 29-69.                                          *)

\* Mutant of IsBlank: the white-space test is left out.
IsBlank_EmptyOnly(needle) == needle = <<>>

\* line 30: `!needle || !needle.trim()`
IsBlank(needle) == needle = <<>> \/ trim(needle) = <<>>

\* line 31
Query(needle) == toLowerCase(trim(needle))

\* Mutant of IsHit: the cell text keeps its case.
IsHit_CaseSensitive(cellVal, query) ==
    cellVal.kind # "null" /\ includes(String(cellVal), query)

\* line 44
IsHit(cellVal, query) ==
    cellVal.kind # "null" /\ includes(toLowerCase(String(cellVal)), query)

\* lines 39-48: the two loops, from (r, c) on.
RECURSIVE Scan(_, _, _, _, _)
Scan(vals, query, r, c, hits) ==
    IF r >= NumRows THEN hits
    ELSE IF c >= NumCols THEN Scan(vals, query, r + 1, 0, hits)
    ELSE Scan(vals, query, r, c + 1,
              IF IsHit(vals[<<r, c>>], query) THEN Append(hits, <<r, c>>) ELSE hits)

Hits(vals, query) == Scan(vals, query, 0, 0, <<>>)

\* lines 51-57, as the second sync applies them: the fill of the used range
\* is cleared, then every hit is coloured.
HIGHLIGHT_COLOR == "yellow"

\* Mutant of Cleared: only the first row of the range is reset.
Cleared_FirstRow(f) == [cell \in Cells |-> IF cell[1] = 0 THEN "" ELSE f[cell]]

\* used.format.fill.clear(), lines 24 and 51: the fill of every cell of the
\* used range is reset.
Cleared(f) == [cell \in Cells |-> ""]

RECURSIVE Coloured(_, _)
Coloured(f, hits) ==
    IF hits = <<>> THEN f
    ELSE Coloured([f EXCEPT ![Head(hits)] = HIGHLIGHT_COLOR], Tail(hits))

\* Mutant of FillAfter: a hit that is highlighted already loses its colour.
FillAfter_Toggle(f, hits) ==
    [cell \in Cells |->
        IF \E k \in 1..Len(hits) : hits[k] = cell
        THEN IF f[cell] = HIGHLIGHT_COLOR THEN "" ELSE HIGHLIGHT_COLOR
        ELSE ""]

\* Mutant of FillAfter: the fill is not cleared first.
FillAfter_NoClear(f, hits) == Coloured(f, hits)

FillAfter(f, hits) == Coloured(Cleared(f), hits)

\* Mutant of SelectionAfter: the last hit is selected.
SelectionAfter_Last(sel, hits) == IF Len(hits) > 0 THEN hits[Len(hits)] ELSE sel

\* lines 60-61
SelectionAfter(sel, hits) == IF Len(hits) > 0 THEN hits[1] ELSE sel

\* Mutant of StatusAfter: the count is reported even when it is zero.
StatusAfter_AlwaysFound(hits, needle) == FoundMsg(Len(hits), needle)

\* lines 60-65
StatusAfter(hits, needle) ==
    IF Len(hits) > 0 THEN FoundMsg(Len(hits), needle) ELSE NoMatchesMsg(needle)

\* History: no batch has written to the sheet yet; the batch of a call has.
NoWrite == [fn |-> "none", needle |-> <<>>]
Write(fn, needle) == [fn |-> fn, needle |-> needle]

\* A batch of Excel.run waiting for its first sync.
Batch(fn, needle) == [fn |-> fn, needle |-> needle, pc |-> "sync1", hits |-> <<>>]

RemoveAt(seq, i) == SubSeq(seq, 1, i - 1) \o SubSeq(seq, i + 1, Len(seq))

\* highlightMatches(needle) up to its first await: nothing for a blank
\* needle, a new batch otherwise.
highlightMatches(needle) ==
    IF IsBlank(needle)
    THEN runs' = runs
    ELSE /\ Len(runs) < MaxRuns
         /\ runs' = Append(runs, Batch("highlightMatches", needle))

\* clearHighlights() up to its first await, lines 17-22.
clearHighlights ==
    /\ Len(runs) < MaxRuns
    /\ runs' = Append(runs, Batch("clearHighlights", <<>>))

-----------------------------------------------------------------------------
(* The frames a socket delivers: evt.data of line 83.                      *)

\* json: "malformed" (JSON.parse throws), "null" (it returns null, and
\* msg.type throws) or "object"; for an object, its type, whether its text
\* is a string, and the text.
Frame(json, type, isString, text) ==
    [json |-> json, type |-> type, isString |-> isString, text |-> text]

Frames ==
    { Frame("malformed", "", FALSE, <<>>), Frame("null", "", FALSE, <<>>),
      Frame("object", "partial", FALSE, <<>>) }
    \cup { Frame("object", "partial", TRUE, t) : t \in Texts }
    \cup { Frame("object", "status", TRUE, t) : t \in {Padded} }

\* Mutant of IsPartial: the type of the frame is not looked at.
IsPartial_AnyType(frame) == frame.json = "object" /\ frame.isString

\* lines 83-84: the frame parses and has the shape that is consumed.
IsPartial(frame) ==
    frame.json = "object" /\ frame.type = "partial" /\ frame.isString

\* Mutant of Triggers: > for >=.
Triggers_Strict(text, threshold) ==
    ~threshold.nan /\ Len(text) > threshold.n

\* line 89
Triggers(text, threshold) == AtLeast(Len(text), threshold)

-----------------------------------------------------------------------------
(* Sockets.                                                                *)

OrphanStates == {"CONNECTING", "OPEN", "CLOSING"}

NoOrphans == [st \in OrphanStates |-> 0]

\* The sockets that can still fire an event.
Alive ==
    (IF ws \in {"CONNECTING", "OPEN"} THEN 1 ELSE 0)
    + orphans["CONNECTING"] + orphans["OPEN"] + orphans["CLOSING"]

\* The sockets that are connecting or open: those that can deliver a frame,
\* now or after their open event.
Connected ==
    (IF ws \in {"CONNECTING", "OPEN"} THEN 1 ELSE 0)
    + orphans["CONNECTING"] + orphans["OPEN"]

Plus(o, st) == [o EXCEPT ![st] = @ + 1]
Minus(o, st) == [o EXCEPT ![st] = @ - 1]

\* Mutant of AlreadyOpen: connect() never returns at once.
AlreadyOpen_Never(w) == FALSE

\* line 72: connect() returns at once.
AlreadyOpen(w) == w # "null" /\ w = "OPEN"

\* WebSocket.close(): a connecting or open socket starts closing, any other
\* is left as it is.
CloseOf(w) == IF w \in {"CONNECTING", "OPEN"} THEN "CLOSING" ELSE w

-----------------------------------------------------------------------------

Init ==
    /\ ws = "null"
    /\ orphans = NoOrphans
    /\ bufferText = <<>>
    /\ autoSearchThreshold = Int32(InitialThreshold)
    /\ status = InitialStatus
    /\ live = <<>>
    /\ connectDisabled = FALSE
    /\ disconnectDisabled = FALSE
    /\ values \in Sheets
    /\ fill = UserFill
    /\ selection = UserCell
    /\ runs = <<>>
    /\ lastWrite = NoWrite

sheetVars == <<values, fill, selection>>
socketVars == <<ws, orphans>>
buttonVars == <<connectDisabled, disconnectDisabled>>

\* connect(), lines 71-108: a click on #connect.
connect ==
    /\ ~connectDisabled
    /\ IF AlreadyOpen(ws)
       THEN UNCHANGED socketVars
       ELSE /\ Alive < MaxSockets
            /\ ws' = "CONNECTING"
            /\ orphans' = IF ws = "CONNECTING" THEN Plus(orphans, ws) ELSE orphans
    /\ UNCHANGED <<bufferText, autoSearchThreshold, status, live, buttonVars,
                   sheetVars, runs, lastWrite>>

\* Mutant of disconnect: `ws = null` is left out.
disconnect_KeepsHandle ==
    /\ ~disconnectDisabled
    /\ IF ws # "null"
       THEN /\ ws' = CloseOf(ws)
            /\ UNCHANGED orphans
       ELSE UNCHANGED socketVars
    /\ UNCHANGED <<bufferText, autoSearchThreshold, status, live, buttonVars,
                   sheetVars, runs, lastWrite>>

\* disconnect(), lines 110-115: a click on #disconnect.
disconnect ==
    /\ ~disconnectDisabled
    /\ IF ws # "null"
       THEN /\ orphans' = IF CloseOf(ws) = "CLOSING" THEN Plus(orphans, "CLOSING") ELSE orphans
            /\ ws' = "null"
       ELSE UNCHANGED socketVars
    /\ UNCHANGED <<bufferText, autoSearchThreshold, status, live, buttonVars,
                   sheetVars, runs, lastWrite>>

\* ws.onopen, lines 75-79.
onopen ==
    /\ status' = ConnectedMsg
    /\ connectDisabled' = TRUE
    /\ disconnectDisabled' = FALSE

\* The open event of a connecting socket: the one ws refers to, or another.
Open ==
    /\ \/ /\ ws = "CONNECTING"
          /\ ws' = "OPEN"
          /\ UNCHANGED orphans
       \/ /\ orphans["CONNECTING"] > 0
          /\ orphans' = Plus(Minus(orphans, "CONNECTING"), "OPEN")
          /\ UNCHANGED ws
    /\ onopen
    /\ UNCHANGED <<bufferText, autoSearchThreshold, live, sheetVars, runs, lastWrite>>

\* ws.onmessage, lines 81-97, up to its await.
onmessage(frame) ==
    IF IsPartial(frame)
    THEN /\ bufferText' = frame.text
         /\ live' = frame.text
         /\ IF Triggers(frame.text, autoSearchThreshold)
            THEN highlightMatches(frame.text)
            ELSE UNCHANGED runs
    ELSE UNCHANGED <<bufferText, live, runs>>

\* A frame arrives on an open socket.
Message(frame) ==
    /\ ws = "OPEN" \/ orphans["OPEN"] > 0
    /\ UNCHANGED <<socketVars, autoSearchThreshold, status, buttonVars, sheetVars, lastWrite>>
    /\ onmessage(frame)

\* Mutant of onclose: the buttons are left as they are.
onclose_StatusOnly(failed) ==
    /\ status' = DisconnectedMsg
    /\ UNCHANGED buttonVars

\* ws.onerror, line 106, then ws.onclose, lines 99-103: the status line after
\* the task that closes a socket, which fires error first when the connection
\* failed.
StatusAfterClose(st, failed) ==
    LET setStatus(old, msg) == msg
        afterError == IF failed THEN setStatus(st, UnableMsg) ELSE st
    IN  setStatus(afterError, DisconnectedMsg)

onclose(failed) ==
    /\ status' = StatusAfterClose(status, failed)
    /\ connectDisabled' = FALSE
    /\ disconnectDisabled' = TRUE

\* A socket closes: the connection failed or the server closed it (the
\* socket ws refers to, or another), or a close() completes.
Close(failed) ==
    /\ \/ /\ ws \in {"CONNECTING", "OPEN"}
          /\ ws = "CONNECTING" => failed
          /\ ws' = "CLOSED"
          /\ UNCHANGED orphans
       \/ \E st \in OrphanStates :
             /\ orphans[st] > 0
             /\ st = "CONNECTING" => failed
             /\ orphans' = Minus(orphans, st)
             /\ UNCHANGED ws
    /\ onclose(failed)
    /\ UNCHANGED <<bufferText, autoSearchThreshold, live, sheetVars, runs, lastWrite>>

\* line 120: a click on #searchNow.
SearchNow ==
    /\ UNCHANGED <<socketVars, bufferText, autoSearchThreshold, status, live,
                   buttonVars, sheetVars, lastWrite>>
    /\ highlightMatches(bufferText)

\* line 121: a click on #clearHighlights.
ClearNow ==
    /\ UNCHANGED <<socketVars, bufferText, autoSearchThreshold, status, live,
                   buttonVars, sheetVars, lastWrite>>
    /\ clearHighlights

\* line 123: the change event of #threshold.
ThresholdChange(v) ==
    /\ autoSearchThreshold' = MathMax0(Number(v))
    /\ UNCHANGED <<socketVars, bufferText, status, live, buttonVars, sheetVars,
                   runs, lastWrite>>

\* The first `await ctx.sync()` of batch i completes (lines 22, 37) and the
\* function runs on to its second: highlightMatches reads the values, finds
\* the hits, queues its writes and sets the status line (lines 39-65);
\* clearHighlights queues the clear (line 24).
Sync1(i) ==
    /\ i \in 1..Len(runs)
    /\ runs[i].pc = "sync1"
    /\ UNCHANGED <<socketVars, bufferText, autoSearchThreshold, live, buttonVars,
                   sheetVars, lastWrite>>
    /\ IF runs[i].fn = "highlightMatches"
       THEN LET hits == Hits(values, Query(runs[i].needle))
            IN  /\ runs' = [runs EXCEPT ![i].pc = "sync2", ![i].hits = hits]
                /\ status' = StatusAfter(hits, runs[i].needle)
       ELSE /\ runs' = [runs EXCEPT ![i].pc = "sync2"]
            /\ UNCHANGED status

\* Mutant of Sync2: the colour is written to the value of a hit, not to its
\* fill.
Sync2_WritesValue(i) ==
    /\ i \in 1..Len(runs)
    /\ runs[i].pc = "sync2"
    /\ UNCHANGED <<socketVars, bufferText, autoSearchThreshold, status, live,
                   buttonVars>>
    /\ values' = [cell \in Cells |->
                     IF \E k \in 1..Len(runs[i].hits) : runs[i].hits[k] = cell
                     THEN Str(<<"y", "e", "l", "l", "o", "w">>)
                     ELSE values[cell]]
    /\ fill' = Cleared(fill)
    /\ selection' = SelectionAfter(selection, runs[i].hits)
    /\ runs' = RemoveAt(runs, i)
    /\ lastWrite' = Write(runs[i].fn, runs[i].needle)

\* Mutant of Sync2: the clear of line 51 reaches a sheet that has a fill in
\* a step of its own, before the colours and the selection.
Sync2_ClearFirst(i) ==
    /\ i \in 1..Len(runs)
    /\ runs[i].pc = "sync2"
    /\ UNCHANGED <<socketVars, bufferText, autoSearchThreshold, status, live,
                   buttonVars, values>>
    /\ IF fill # Cleared(fill) /\ runs[i].hits # <<>>
       THEN /\ fill' = Cleared(fill)
            /\ UNCHANGED <<selection, runs, lastWrite>>
       ELSE /\ fill' = FillAfter(fill, runs[i].hits)
            /\ selection' = SelectionAfter(selection, runs[i].hits)
            /\ runs' = RemoveAt(runs, i)
            /\ lastWrite' = Write(runs[i].fn, runs[i].needle)

\* Mutant of Sync2: the batches write in the order of their calls.
Sync2_InOrder(i) ==
    /\ i = 1
    /\ i \in 1..Len(runs)
    /\ runs[i].pc = "sync2"
    /\ UNCHANGED <<socketVars, bufferText, autoSearchThreshold, status, live,
                   buttonVars, values>>
    /\ fill' = FillAfter(fill, runs[i].hits)
    /\ selection' = SelectionAfter(selection, runs[i].hits)
    /\ runs' = RemoveAt(runs, i)
    /\ lastWrite' = Write(runs[i].fn, runs[i].needle)

\* The second `await ctx.sync()` of batch i completes (lines 25, 67): its
\* queued writes reach the sheet and the batch ends.
Sync2(i) ==
    /\ i \in 1..Len(runs)
    /\ runs[i].pc = "sync2"
    /\ UNCHANGED <<socketVars, bufferText, autoSearchThreshold, status, live,
                   buttonVars, values>>
    /\ fill' = FillAfter(fill, runs[i].hits)
    /\ selection' = SelectionAfter(selection, runs[i].hits)
    /\ runs' = RemoveAt(runs, i)
    /\ lastWrite' = Write(runs[i].fn, runs[i].needle)

\* The rejection of a batch is dropped: no handler catches it.  The only
\* caller of clearHighlights is the click handler of line 121, which returns
\* the promise to the event dispatcher.  A highlightMatches batch is called
\* from the try of onmessage (line 91), which catches the rejection, or from
\* the click handler of line 120, which drops it like line 121; a batch does
\* not record which, so only the clearHighlights batches are counted here.
Dropped(batch) == batch.fn = "clearHighlights"

\* A sync of batch i fails (lines 22, 25, 37, 67): ctx.sync() rejects, the
\* rest of the batch function does not run, none of its queued writes reaches
\* the sheet and the promise of Excel.run, and with it that of the call,
\* rejects.
SyncFails(i) ==
    /\ i \in 1..Len(runs)
    /\ UNCHANGED <<socketVars, bufferText, autoSearchThreshold, status, live,
                   buttonVars, sheetVars, lastWrite>>
    /\ runs' = RemoveAt(runs, i)

Next ==
    \/ connect
    \/ disconnect
    \/ Open
    \/ \E frame \in Frames : Message(frame)
    \/ \E failed \in BOOLEAN : Close(failed)
    \/ SearchNow
    \/ ClearNow
    \/ \E v \in ThresholdValues : ThresholdChange(v)
    \/ \E i \in 1..MaxRuns : Sync1(i)
    \/ \E i \in 1..MaxRuns : Sync2(i)
    \/ \E i \in 1..MaxRuns : SyncFails(i)

Spec == Init /\ [][Next]_vars

\* The close event of a socket that close() was called on (line 112).
CloseCompletes ==
    \E failed \in BOOLEAN :
        Close(failed) /\ orphans'["CLOSING"] < orphans["CLOSING"]

\* The browser ends the closing handshake of a socket, by the answer of the
\* server or by its own time-out, and then fires the close event.
FairSpec == Spec /\ WF_vars(CloseCompletes)

-----------------------------------------------------------------------------
(* The vocabulary of the claims, stated without the operators above.       *)

\* s is empty or holds white space only.
AllWhiteSpace(s) == \A i \in 1..Len(s) : s[i] = " "

\* s without its leading and trailing white space.
Stripped(s) ==
    LET inked == {i \in 1..Len(s) : s[i] # " "}
    IN  IF inked = {} THEN <<>>
        ELSE SubSeq(s, CHOOSE i \in inked : \A j \in inked : i <= j,
                       CHOOSE i \in inked : \A j \in inked : i >= j)

\* Two characters that are the same letter in either case.
SameLetter(a, b) ==
    \/ a = b
    \/ \E pair \in {<<"a", "A">>, <<"b", "B">>, <<"c", "C">>, <<"x", "X">>} :
          {a, b} = {pair[1], pair[2]}

\* term occurs in text, whatever the case of the letters.
ContainsIgnoringCase(text, term) ==
    \E k \in 0..(Len(text) - Len(term)) :
        \A i \in 1..Len(term) : SameLetter(text[k + i], term[i])

\* The cells whose value is present and whose text contains term.
Matching(term) ==
    {cell \in Cells : /\ values[cell].kind # "null"
                      /\ ContainsIgnoringCase(String(values[cell]), term)}

\* The cell of S that a row-by-row scan meets first.
RowMajorFirst(S) ==
    CHOOSE cell \in S :
        \A other \in S : \/ cell[1] < other[1]
                         \/ cell[1] = other[1] /\ cell[2] <= other[2]

Highlighted == {cell \in Cells : fill[cell] = "yellow"}

\* A length is at or above the threshold: the threshold is a number and is
\* not greater than the length.
AtOrAboveThreshold(len) ==
    /\ ~autoSearchThreshold.nan
    /\ \/ len > autoSearchThreshold.n
       \/ len = autoSearchThreshold.n /\ ~autoSearchThreshold.frac

\* This step calls highlightMatches(needle): from the search-now button, or
\* from a partial frame whose text reaches the threshold.
CallsHighlight(needle) ==
    \/ bufferText = needle /\ SearchNow
    \/ \E frame \in Frames :
          /\ frame.json = "object" /\ frame.type = "partial" /\ frame.isString
          /\ frame.text = needle
          /\ AtOrAboveThreshold(Len(needle))
          /\ Message(frame)

-----------------------------------------------------------------------------

\* C1: a call of highlightMatches with a search string that is empty or white
\* space only starts no batch and leaves the fill of the sheet, the selection
\* and the status line as they were.
C1_BlankNeedleChangesNothing ==
    [][\A needle \in Texts :
          AllWhiteSpace(needle) /\ CallsHighlight(needle)
              => UNCHANGED <<values, fill, selection, status, runs>>]_vars

\* A white-space transcript is in the buffer at a threshold it reaches, with
\* highlights on the sheet and a count on the status line, and no batch is in
\* flight: the frame that brought it called highlightMatches with it, and so
\* does the search-now button.
C1_Witness ==
    /\ bufferText = <<" ">>
    /\ ~autoSearchThreshold.nan /\ autoSearchThreshold.n <= 1
    /\ runs = <<>>
    /\ Highlighted # {}
    /\ status.kind = "found"

C4_SelectsFirstMatchInRowMajorOrder ==
    [][\A i \in 1..MaxRuns :
          Sync2(i) /\ runs[i].fn = "highlightMatches"
              => LET found == Matching(Stripped(runs[i].needle))
                 IN  selection' = IF found = {} THEN selection
                                  ELSE RowMajorFirst(found)]_vars

\* A call has written to a sheet with two matches, one of them in a lower
\* row and a column further left than the other: the upper one is selected.
C4_Witness ==
    /\ lastWrite.fn = "highlightMatches"
    /\ runs = <<>>
    /\ LET found == Matching(Stripped(lastWrite.needle))
       IN  /\ selection \in found
           /\ \E other \in found : other[1] > selection[1] /\ other[2] < selection[2]

\* C5: a highlightMatches call with a search string that is not blank sets the
\* status line to the found message with the number of matching cells and the
\* search string when a cell matches, and to the no-matches message with the
\* search string when none does.
C5_StatusReportsMatchCount ==
    [][\A i \in 1..MaxRuns :
          Sync1(i) /\ runs[i].fn = "highlightMatches"
              => LET n == Cardinality(Matching(Stripped(runs[i].needle)))
                 IN  status' = IF n >= 1
                               THEN [kind |-> "found", n |-> n, term |-> runs[i].needle]
                               ELSE [kind |-> "nomatch", n |-> 0, term |-> runs[i].needle]]_vars

\* The call for the padded term has counted the three matches of its sheet
\* and waits for its writes to reach it.
C5_Witness ==
    /\ status = [kind |-> "found", n |-> 3, term |-> Padded]
    /\ \E i \in 1..Len(runs) : runs[i].needle = Padded /\ runs[i].pc = "sync2"
                               /\ Len(runs[i].hits) = 3

C7_OtherFramesAreIgnored ==
    [][\A frame \in Frames :
          /\ ~(frame.json = "object" /\ frame.type = "partial" /\ frame.isString)
          /\ Message(frame)
          => UNCHANGED <<bufferText, live, status, values, fill, selection, runs>>]_vars

\* A socket is open while a transcript is in the buffer and its matches are
\* counted on the status line and highlighted on the sheet: the state in
\* which such a frame arrives, and the state it leaves.
C7_Witness ==
    /\ ws = "OPEN"
    /\ bufferText = Word /\ live = Word
    /\ status.kind = "found"
    /\ Highlighted # {}
    /\ runs = <<>>

\* C8: disconnect() closes the socket ws refers to when it is connecting or
\* open, and leaves ws null; with ws null it changes nothing, so a second call
\* in a row changes nothing; it never touches the buffer, the displays, the
\* buttons or the sheet.
C8_DisconnectClearsHandle ==
    [][disconnect
          => /\ ws' = "null"
             /\ Connected' = Connected - (IF ws \in {"CONNECTING", "OPEN"} THEN 1 ELSE 0)
             /\ orphans'["CLOSING"] =
                    orphans["CLOSING"] + (IF ws \in {"CONNECTING", "OPEN"} THEN 1 ELSE 0)
             /\ ws = "null" => UNCHANGED vars
             /\ UNCHANGED <<bufferText, autoSearchThreshold, status, live,
                            connectDisabled, disconnectDisabled, values, fill,
                            selection, runs>>]_vars

\* disconnect() has closed an open socket and cleared ws, and its button is
\* still enabled for a second call.
C8_Witness ==
    /\ ws = "null"
    /\ orphans["CLOSING"] = 1
    /\ status.kind = "connected"
    /\ ~disconnectDisabled

\* C9: connect() changes nothing when the socket ws refers to is open;
\* otherwise it makes exactly one new socket, which ws then refers to, and
\* changes nothing else.
C9_ConnectOnlyWhenNotOpen ==
    [][connect
          => IF ws = "OPEN"
             THEN UNCHANGED vars
             ELSE /\ ws' = "CONNECTING"
                  /\ Alive' = Alive + 1
                  /\ Connected' = Connected + 1
                  /\ UNCHANGED <<bufferText, autoSearchThreshold, status, live,
                                 connectDisabled, disconnectDisabled, values, fill,
                                 selection, runs>>]_vars

\* connect() has made a socket after the earlier one was closed by the
\* server: ws refers to the new socket, the only one there is.
C9_Witness ==
    /\ ws = "CONNECTING"
    /\ Alive = 1
    /\ status.kind = "disconnected"

\* C10: at most one socket made by connect() is connecting or open.
C10_SingleConnection == Connected <= 1

\* The interface shows the disconnected state of lines 100-102.
UIDisconnected ==
    /\ status = [kind |-> "disconnected", n |-> 0, term |-> <<>>]
    /\ ~connectDisabled
    /\ disconnectDisabled

\* C11: every close event of a socket, whether the server closed it, the
\* connection failed or disconnect() closed it, puts the interface in the
\* disconnected state; and a socket that disconnect() closed, and that ws no
\* longer refers to, does get its close event, so that the interface
\* eventually shows the disconnected state.
C11_CloseDisconnectsUI ==
    /\ [][(\E failed \in BOOLEAN : Close(failed)) => UIDisconnected']_vars
    /\ (orphans["CLOSING"] > 0) ~> UIDisconnected

\* disconnect() has cleared ws, the socket it closed has had its close event
\* after that, and the interface shows the disconnected state.
C11_Witness ==
    /\ ws = "null"
    /\ Alive = 0
    /\ bufferText # <<>>
    /\ UIDisconnected

\* C12: when the latest write to the sheet is that of a highlightMatches call
\* and a further call for the same search string runs on the same sheet, the
\* writes of the further call leave the fill of every cell and the selection
\* as the first call left them, and its status message is the message of the
\* first call.
C12_SecondCallChangesNothing ==
    [][\A i \in 1..MaxRuns :
          /\ lastWrite.fn = "highlightMatches"
          /\ i <= Len(runs)
          /\ runs[i].fn = "highlightMatches"
          /\ runs[i].needle = lastWrite.needle
          => /\ Sync2(i) => UNCHANGED <<fill, selection>>
             /\ Sync1(i) /\ status.kind \in {"found", "nomatch"}
                         /\ status.term = lastWrite.needle
                    => UNCHANGED status]_vars

\* A call has highlighted its matches and selected the first; a second call
\* for the same search string is the only batch in flight, has set the
\* status line again and waits for its writes to reach the sheet.
C12_Witness ==
    /\ lastWrite.fn = "highlightMatches"
    /\ Len(runs) = 1
    /\ runs[1].fn = "highlightMatches"
    /\ runs[1].needle = lastWrite.needle
    /\ runs[1].pc = "sync2"
    /\ status.kind = "found" /\ status.term = lastWrite.needle
    /\ Highlighted # {}
    /\ selection \in Highlighted

\* C13: when the writes of a clearHighlights call reach the sheet, no cell of
\* the used range is highlighted or keeps any fill, whatever was highlighted, and
\* nothing but the fill changes: neither the values, nor the selection, nor
\* the status line; on a range without any fill nothing changes at all.
C13_ClearRemovesEveryFill ==
    [][\A i \in 1..MaxRuns :
          Sync2(i) /\ runs[i].fn = "clearHighlights"
              => /\ Highlighted' = {}
                 /\ \A cell \in Cells : fill'[cell] = ""
                 /\ UNCHANGED <<values, selection, status>>
                 /\ (\A cell \in Cells : fill[cell] = "") => UNCHANGED fill]_vars

\* A clearHighlights call was the last to write to a sheet on which a
\* highlightMatches call had highlighted and selected a match: the status
\* line still names that search, and no cell has a fill, the cell the user
\* had coloured included.
C13_Witness ==
    /\ lastWrite.fn = "clearHighlights"
    /\ runs = <<>>
    /\ status.kind = "found"
    /\ selection \in Cells
    /\ \A cell \in Cells : fill[cell] = ""

\* C14: nothing orders the calls.  While a batch is in flight the search-now
\* button starts a further one, every batch that waits for its writes can
\* write next whatever the other batches in flight are, and once no batch is
\* in flight the cells highlighted are the matches of the call that wrote
\* last, whatever the transcript in the buffer is.
C14_NoMutualExclusion ==
    /\ Len(runs) = 1 /\ ~AllWhiteSpace(bufferText)
           => ENABLED (SearchNow /\ Len(runs') = 2)
    /\ \A i \in 1..Len(runs) : runs[i].pc = "sync2" => ENABLED Sync2(i)
    /\ runs = <<>> /\ lastWrite.fn = "highlightMatches"
           => Highlighted = Matching(Stripped(lastWrite.needle))

\* The transcript in the buffer is the padded one and the status line counts
\* its matches, so the call for it ran after the call for the other
\* transcript had set the status line; no batch is in flight, and the cells
\* highlighted are the matches of the other, older transcript, whose writes
\* reached the sheet last, and not those of the transcript in the buffer.
C14_Witness ==
    /\ runs = <<>>
    /\ bufferText = Padded
    /\ status.kind = "found" /\ status.term = Padded
    /\ lastWrite = [fn |-> "highlightMatches", needle |-> Word]
    /\ Highlighted = Matching(Stripped(Word))
    /\ Highlighted # Matching(Stripped(Padded))

\* The search strings a call can have and that are not blank.
Terms == {t \in Texts : ~AllWhiteSpace(t)}

\* C15: the highlighting changes only in the step in which the writes of one
\* batch reach the sheet, and in that one step it becomes the whole result
\* of the batch: for a highlightMatches batch exactly the matches of its
\* search string are highlighted, no other cell keeps a fill, and the
\* selection is on the first match.  So in every state the cells highlighted
\* are none, as before any call, or the matches of one single call.
C15_WritesOfACallLandTogether ==
    /\ [][fill' # fill \/ selection' # selection
             => \E i \in 1..Len(runs) :
                   /\ Sync2(i)
                   /\ runs[i].fn = "highlightMatches"
                         => LET found == Matching(Stripped(runs[i].needle))
                            IN  /\ Highlighted' = found
                                /\ \A cell \in Cells \ found : fill'[cell] = ""
                                /\ found # {} => selection' = RowMajorFirst(found)]_vars
    /\ [](Highlighted = {} \/ \E t \in Terms : Highlighted = Matching(Stripped(t)))

\* Two calls for different search strings with different matches overlap:
\* the writes of one have reached the sheet, which shows exactly its matches
\* and has the first of them selected, while the other call has counted its
\* matches and waits for its own writes.
C15_Witness ==
    /\ lastWrite.fn = "highlightMatches"
    /\ Len(runs) = 1
    /\ runs[1].fn = "highlightMatches" /\ runs[1].pc = "sync2"
    /\ runs[1].needle # lastWrite.needle
    /\ Highlighted = Matching(Stripped(lastWrite.needle))
    /\ Highlighted # {}
    /\ Highlighted # Matching(Stripped(runs[1].needle))
    /\ selection = RowMajorFirst(Highlighted)

\* C16: no failure of a worksheet operation inside the highlight or the clear
\* routine ends as an error that nothing handles: whenever a sync of a batch
\* fails, a handler catches the rejection.
C16_NoUnhandledRejection ==
    [][\A i \in 1..MaxRuns :
          SyncFails(i) => ~Dropped(runs[i])]_vars

\* C17: while the interface shows the disconnected state, no socket made by
\* connect() is open, so that no frame can reach the buffer.
C17_DisconnectedMeansNoOpenSocket ==
    UIDisconnected => ws # "OPEN" /\ orphans["OPEN"] = 0

\* C18: once no batch is in flight, a status line that counts n matches of a
\* search string goes with exactly the n matching cells highlighted, and a
\* status line that reports no match goes with no cell highlighted.
C18_StatusAgreesWithSheet ==
    runs = <<>>
        => /\ status.kind = "found"
                  => /\ Highlighted = Matching(Stripped(status.term))
                     /\ Cardinality(Highlighted) = status.n
           /\ status.kind = "nomatch" => Highlighted = {}

\* C19: the threshold is a non-negative integer in every state.
C19_ThresholdIsNonNegativeInteger ==
    /\ ~autoSearchThreshold.nan
    /\ ~autoSearchThreshold.frac
    /\ autoSearchThreshold.n >= 0

\* This step belongs to the highlight or the clear routine: a call of one of
\* them from a button, or the continuation or the failure of one of their
\* syncs.  Each of them changes the batches in flight.
RoutineStep ==
    /\ runs' # runs
    /\ \/ SearchNow
       \/ ClearNow
       \/ \E i \in 1..Len(runs) : Sync1(i) \/ Sync2(i) \/ SyncFails(i)

\* C20: no step changes the value of a cell; a step of the highlight or the
\* clear routine changes nothing but the fill, the selection, the status line
\* and the batches in flight: it leaves the buffer and its display, the
\* threshold, the sockets and the buttons as they were; and no other step
\* changes the fill or the selection.
C20_OnlyStylingSelectionAndStatusChange ==
    [][/\ values' = values
       /\ IF RoutineStep
          THEN UNCHANGED <<bufferText, live, autoSearchThreshold, ws, orphans,
                           connectDisabled, disconnectDisabled>>
          ELSE UNCHANGED <<fill, selection>>]_vars

\* After a connect, frames, a change of the threshold and a completed search
\* the sheet has its matches highlighted and the first one selected, the
\* status line counts them, and the values, the buffer and the open socket
\* are as they were before the search.
C20_Witness ==
    /\ values = SheetA
    /\ lastWrite = [fn |-> "highlightMatches", needle |-> Word]
    /\ runs = <<>>
    /\ Highlighted # {} /\ selection \in Highlighted
    /\ status.kind = "found"
    /\ bufferText = Word /\ live = Word
    /\ autoSearchThreshold.n = 0
    /\ ws = "OPEN"

====
